---- MODULE Spec2Model ----
(***************************************************************************)
(* Model of the laptop dataset preparation scripts.                        *)
(*                                                                         *)
(*   scripts/clean_laptop_dataset.py  validate_bounding_boxes,             *)
(*                                    calculate_brightness, enhance_image, *)
(*                                    clean_dataset                        *)
(*                                                                         *)
(*   scripts/split_laptop_dataset.py  split_dataset, prepare_split         *)
(*   scripts/make_laptop_labels.py    generate_yolo_labels_for_laptop      *)
(*                                                                         *)
(* Spec          one call of clean_dataset, statement block by statement   *)
(*               block, over every small source directory.                 *)
(* SpecValidate  one call of validate_bounding_boxes over every small      *)
(*               label file.                                               *)
(* SpecSplit     two calls of split_dataset into the same output root.     *)
(* SpecSizes     the ratio check and the size computation of split_dataset *)
(*               over every ratio the floating-point format holds.         *)
(* SpecLabels    one call of generate_yolo_labels_for_laptop, row by row.  *)
(***************************************************************************)
EXTENDS Integers, Sequences, FiniteSets, TLC

\* ------------------------------------------------------------------ bounds
\* Largest number of image files in the source directory.
MaxImages == 3
\* Largest number of lines in a label file given to validate_bounding_boxes.
MaxLines == 2
\* Label coordinates are multiples of 1/Scale (k stands for k/Scale).
Scale == 4

\* Largest number of file stems in the directory given to split_dataset.
MaxStems == 3
\* Largest number of valid pairs the size computation is checked for.
MaxTotal == 10
\* Significant bits of a float (53 in CPython; the format is otherwise kept).
MantBits == 5
\* Largest number of rows in the annotations CSV.
MaxRows == 3

\* ------------------------------------------------------- program constants
DefaultMinBrightness == 30
DefaultMaxBrightness == 220
DefaultSeed == 42

VARIABLES
    images,            \* images[d][i]: image file i.jpg of directory d
    labels,            \* labels[d][i]: label file i.txt of directory d
    source0,           \* the source directory as it was when the call started
    output_dir,        \* the directory output_dir resolves to
    min_brightness, max_brightness, apply_enhancement,
    image_files,       \* the list built from source_dir.iterdir()
    stats, seen_hashes,
    idx,               \* position of the for loop in image_files
    pc,                \* position in clean_dataset
    log,               \* the "Removing ..." lines printed, and the kept images
    hashed,            \* images calculate_image_hash was called on
    writes,            \* <<image, file>>: files written while processing image
    enhance_failed,    \* images enhance_image returned False for
    vfile, vresult, vpc, \* validate_bounding_boxes: argument, result, position
    source_dir,        \* split_dataset: the files of source_dir
    output_root,       \* the split directories under output_root
    args,              \* train_ratio, val_ratio, seed of the current call
    spc,               \* position in split_dataset
    loc,               \* the local variables of split_dataset
    hist,              \* call number, I/O done by this call, the call before
    sz,                \* ratio check and sizes: arguments, position, result
    images_dir,        \* generate_yolo_labels_for_laptop: files of images_dir
    annotations,       \* the rows of the annotations CSV
    gen                \* position and local variables of the generator

vars == <<images, labels, source0, output_dir, min_brightness, max_brightness,
          apply_enhancement, image_files, stats, seen_hashes, idx, pc, log,
          hashed, writes, enhance_failed, vfile, vresult, vpc,
          source_dir, output_root, args, spc, loc, hist, sz,
          images_dir, annotations, gen>>

cleanVars == <<images, labels, source0, output_dir, min_brightness,
               max_brightness, apply_enhancement, image_files, stats,
               seen_hashes, idx, pc, log, hashed, writes, enhance_failed>>

validateVars == <<vfile, vresult, vpc>>

splitVars == <<source_dir, output_root, args, spc, loc, hist>>

sizeVars == <<sz>>

labelGenVars == <<images_dir, annotations, gen>>

Range(f) == {f[x] : x \in DOMAIN f}

\* ================================================================ label files
\* A label file is [exists, readable, lines]; a line is the token list
\* line.strip().split() yields; a token is [form, v]: form "int" is an integer
\* literal ("0"), "dec" a decimal literal ("0.5"), "bad" anything float() and
\* int() both reject; v is its value in units of 1/Scale.
TokInt(k) == [form |-> "int", v |-> k * Scale]
TokDec(v) == [form |-> "dec", v |-> v]
TokBad == [form |-> "bad", v |-> 0]

NoLabelFile == [exists |-> FALSE, readable |-> FALSE, lines |-> <<>>]
UnreadableLabelFile == [exists |-> TRUE, readable |-> FALSE, lines |-> <<>>]
LabelFile(ls) == [exists |-> TRUE, readable |-> TRUE, lines |-> ls]

\* int(parts[0]) succeeds: Python's int() rejects "0.5" and "1.0".
IntParses(tok) == tok.form = "int"
\* float(parts[k]) succeeds: float() accepts integer and decimal literals.
FloatParses(tok) == tok.form \in {"int", "dec"}

\* The body of the for loop of validate_bounding_boxes for one line: FALSE
\* where the code returns False. x_min, x_max, y_min, y_max are kept in units
\* of 1/(2*Scale) so that width/2.0 is exact.
LineValid(parts) ==
    IF Len(parts) # 5 THEN FALSE
    ELSE IF ~IntParses(parts[1]) THEN FALSE
    ELSE IF \E k \in 2..5 : ~FloatParses(parts[k]) THEN FALSE
    ELSE LET x_center == parts[2].v
             y_center == parts[3].v
             width == parts[4].v
             height == parts[5].v
             x_min == 2 * x_center - width
             x_max == 2 * x_center + width
             y_min == 2 * y_center - height
             y_max == 2 * y_center + height
         IN IF ~(0 <= x_center /\ x_center <= Scale
                 /\ 0 <= y_center /\ y_center <= Scale) THEN FALSE
            ELSE IF ~(0 < width /\ width <= Scale
                      /\ 0 < height /\ height <= Scale) THEN FALSE
            ELSE IF ~(0 <= x_min /\ x_min < x_max /\ x_max <= 2 * Scale
                      /\ 0 <= y_min /\ y_min < y_max /\ y_max <= 2 * Scale)
                 THEN FALSE
            ELSE TRUE

\* for line in lines: the first bad line returns False, the end returns True.
RECURSIVE LinesValidFrom(_, _)
LinesValidFrom(lines, k) ==
    IF k > Len(lines) THEN TRUE
    ELSE IF ~LineValid(lines[k]) THEN FALSE
    ELSE LinesValidFrom(lines, k + 1)

\* As validate_bounding_boxes, but only the first line is looked at.
validate_bounding_boxes_FirstLineOnly(label) ==
    IF ~label.exists THEN FALSE
    ELSE IF ~label.readable THEN FALSE
    ELSE IF label.lines = <<>> THEN FALSE
    ELSE LineValid(label.lines[1])

validate_bounding_boxes(label) ==
    IF ~label.exists THEN FALSE
    ELSE IF ~label.readable THEN FALSE      \* open/readlines raised: except
    ELSE IF label.lines = <<>> THEN FALSE
    ELSE LinesValidFrom(label.lines, 1)

\* ----------------------------------------------- label files that are tried
CoordVals == {-1, 0, 1, Scale \div 2, Scale, Scale + 1}
GoodLine == <<TokInt(0), TokDec(Scale \div 2), TokDec(Scale \div 2),
              TokDec(1), TokDec(1)>>
LineSet ==
    {<<TokInt(0), TokDec(x), TokDec(Scale \div 2), TokDec(w), TokDec(1)>> :
        x \in CoordVals, w \in CoordVals}
    \cup {<<TokInt(0), TokDec(Scale \div 2), TokDec(y), TokDec(1), TokDec(h)>> :
        y \in CoordVals, h \in CoordVals}
    \cup {<<>>,                                            \* a blank line
          SubSeq(GoodLine, 1, 4),                          \* 4 tokens
          GoodLine \o <<TokDec(1)>>,                       \* 6 tokens
          <<TokDec(0)>> \o SubSeq(GoodLine, 2, 5),         \* class id "0.0"
          <<TokBad>> \o SubSeq(GoodLine, 2, 5),            \* class id "x"
          <<TokInt(-1)>> \o SubSeq(GoodLine, 2, 5),        \* class id "-1"
          SubSeq(GoodLine, 1, 3) \o <<TokBad, TokDec(1)>>, \* width "abc"
          <<TokInt(0), TokInt(0), TokInt(1), TokDec(1), TokDec(1)>>,
          <<TokInt(0), TokDec(Scale \div 2), TokDec(Scale \div 2),
            TokInt(1), TokInt(1)>>}

\* The lines around the one line that is varied over all of LineSet.
SampleLines == {GoodLine, <<>>,
                <<TokInt(1), TokDec(1), TokDec(1), TokDec(1), TokDec(1)>>,
                <<TokInt(0), TokDec(0), TokDec(0), TokDec(1), TokDec(1)>>}

RECURSIVE SeqsUpTo(_, _)
SeqsUpTo(S, n) ==
    IF n = 0 THEN {<<>>}
    ELSE LET shorter == SeqsUpTo(S, n - 1)
         IN shorter \cup {Append(s, e) : s \in shorter, e \in S}

\* s with line l put in before position k.
InsertAt(s, k, l) == SubSeq(s, 1, k - 1) \o <<l>> \o SubSeq(s, k, Len(s))

\* No file, an unreadable file, the empty file, and every file of up to
\* MaxLines lines of which one is any line of LineSet, at any position.
LabelFiles ==
    {NoLabelFile, UnreadableLabelFile, LabelFile(<<>>)}
    \cup UNION {{LabelFile(InsertAt(s, k, l)) : k \in 1..(Len(s) + 1), l \in LineSet} :
                s \in SeqsUpTo(SampleLines, MaxLines - 1)}

\* ================================================================ image files
\* An image file is [exists, bytes, enhanced]: bytes names the content the
\* file was downloaded with, enhanced says enhance_image re-encoded it.
Dirs == {"source", "output"}
Ids == 1..MaxImages
BytesList == <<"normal", "dark", "bright", "corrupt">>
NoImage == [exists |-> FALSE, bytes |-> "", enhanced |-> FALSE]
ImageFile(b) == [exists |-> TRUE, bytes |-> b, enhanced |-> FALSE]

\* cv2.imread returns None for a file it cannot decode.
imread_is_None(image) == image.bytes = "corrupt"
\* np.mean of the grayscale image.
MeanGray(image) ==
    CASE image.bytes = "dark" -> 10
      [] image.bytes = "bright" -> 250
      [] OTHER -> 128

calculate_brightness(image) ==
    IF imread_is_None(image) THEN 0 ELSE MeanGray(image)

\* hashlib.md5 of the file's bytes: equal for equal bytes, and (collisions
\* aside) different for different bytes.
calculate_image_hash(image) == <<"md5", image.bytes, image.enhanced>>

\* Image.open / enhance / save of enhance_image can succeed on this file.
\* PIL cannot open what cv2 cannot decode; a file cv2 decodes (a truncated
\* JPEG, say) may still make PIL raise, which enhance_image turns into False.
PilMaySucceed(image) == ~imread_is_None(image)

\* As Decide, but the brightness check comes before the duplicate check.
Decide_BrightnessFirst(image, label, seen, min_b, max_b) ==
    IF ~label.exists THEN "no_label"
    ELSE IF ~validate_bounding_boxes(label) THEN "invalid_bbox"
    ELSE IF calculate_brightness(image) < min_b THEN "too_dark"
    ELSE IF calculate_brightness(image) > max_b THEN "too_bright"
    ELSE IF calculate_image_hash(image) \in seen THEN "duplicate"
    ELSE "pass"

\* As Decide, but the hash is looked up before the label is checked.
Decide_DuplicateFirst(image, label, seen, min_b, max_b) ==
    IF calculate_image_hash(image) \in seen THEN "duplicate"
    ELSE IF ~label.exists THEN "no_label"
    ELSE IF ~validate_bounding_boxes(label) THEN "invalid_bbox"
    ELSE IF calculate_brightness(image) < min_b THEN "too_dark"
    ELSE IF calculate_brightness(image) > max_b THEN "too_bright"
    ELSE "pass"

\* Checks 1 to 4 of the loop body of clean_dataset, in the order of the
\* code's continue statements; seen is the key set of seen_hashes.
Decide(image, label, seen, min_b, max_b) ==
    IF ~label.exists THEN "no_label"
    ELSE IF ~validate_bounding_boxes(label) THEN "invalid_bbox"
    ELSE IF calculate_image_hash(image) \in seen THEN "duplicate"
    ELSE IF calculate_brightness(image) < min_b THEN "too_dark"
    ELSE IF calculate_brightness(image) > max_b THEN "too_bright"
    ELSE "pass"

\* ------------------------------------------------ directories that are tried
CleanLabelFiles == <<NoLabelFile,
                     LabelFile(<<GoodLine>>),
                     LabelFile(<<GoodLine, <<>>>>)>>
\* The (bytes, label) kinds of an image: an image whose label is missing or
\* invalid is never decoded, so for it only two contents are tried.
EntryKinds == {e \in (1..Len(BytesList)) \X (1..Len(CleanLabelFiles)) :
                  e[2] = 2 \/ e[1] <= 2}
EntryCode(e) == e[1] * (Len(CleanLabelFiles) + 1) + e[2]
\* File names carry no meaning for clean_dataset, so the images are numbered
\* in non-decreasing order of their (bytes, label) kind; the order in which
\* iterdir lists them is chosen freely in Discover.
Listings ==
    UNION {{e \in [1..n -> EntryKinds] :
              \A i \in 1..n : \A j \in 1..n :
                  i <= j => EntryCode(e[i]) <= EntryCode(e[j])} :
           n \in 0..MaxImages}
BrightnessSettings == {<<DefaultMinBrightness, DefaultMaxBrightness>>, <<0, 255>>}

ZeroStats == [total_images |-> 0, duplicates_removed |-> 0,
              no_label_removed |-> 0, invalid_bbox_removed |-> 0,
              too_dark_removed |-> 0, too_bright_removed |-> 0,
              kept |-> 0, enhanced |-> 0]

RECURSIVE Perms(_)
Perms(S) ==
    IF S = {} THEN {<<>>}
    ELSE UNION {{<<x>> \o p : p \in Perms(S \ {x})} : x \in S}

ValidateIdle ==
    /\ vfile = NoLabelFile
    /\ vresult = FALSE
    /\ vpc = "idle"

SplitIdle ==
    /\ source_dir = [images |-> {}, labels |-> {}]
    /\ output_root = <<>>
    /\ args = <<>>
    /\ spc = "idle"
    /\ loc = <<>>
    /\ hist = <<>>

SizesIdle == sz = <<>>

LabelGenIdle ==
    /\ images_dir = [images |-> {}, labels |-> <<>>]
    /\ annotations = <<>>
    /\ gen = <<>>

Init ==
    /\ \E e \in Listings :
         /\ images = [d \in Dirs |-> [i \in Ids |->
                IF d = "source" /\ i \in DOMAIN e
                THEN ImageFile(BytesList[e[i][1]]) ELSE NoImage]]
         /\ labels = [d \in Dirs |-> [i \in Ids |->
                IF d = "source" /\ i \in DOMAIN e
                THEN CleanLabelFiles[e[i][2]] ELSE NoLabelFile]]
    /\ source0 = [img |-> images["source"], lbl |-> labels["source"]]
    /\ output_dir \in Dirs
    /\ \E b \in BrightnessSettings :
         /\ min_brightness = b[1]
         /\ max_brightness = b[2]
    /\ apply_enhancement \in BOOLEAN
    /\ image_files = <<>>
    /\ stats = ZeroStats
    /\ seen_hashes = <<>>
    /\ idx = 1
    /\ pc = "call"
    /\ log = <<>>
    /\ hashed = {}
    /\ writes = {}
    /\ enhance_failed = {}
    /\ ValidateIdle
    /\ SplitIdle
    /\ SizesIdle
    /\ LabelGenIdle

\* ============================================================== clean_dataset
\* mkdir, the iterdir listing (in whatever order the file system gives), the
\* stats record and the empty seen_hashes.
Discover_CountAllFiles ==
    /\ pc = "call"
    /\ image_files' \in Perms({i \in Ids : images["source"][i].exists})
    /\ stats' = [ZeroStats EXCEPT !.total_images =
                    Len(image_files')
                    + Cardinality({i \in Ids : labels["source"][i].exists})]
    /\ seen_hashes' = <<>>
    /\ idx' = 1
    /\ pc' = "loop"
    /\ UNCHANGED <<images, labels, source0, output_dir, min_brightness,
                   max_brightness, apply_enhancement, log, hashed, writes,
                   enhance_failed>>
    /\ UNCHANGED <<validateVars, splitVars, sizeVars, labelGenVars>>

Discover ==
    /\ pc = "call"
    /\ image_files' \in Perms({i \in Ids : images["source"][i].exists})
    /\ stats' = [ZeroStats EXCEPT !.total_images = Len(image_files')]
    /\ seen_hashes' = <<>>
    /\ idx' = 1
    /\ pc' = "loop"
    /\ UNCHANGED <<images, labels, source0, output_dir, min_brightness,
                   max_brightness, apply_enhancement, log, hashed, writes,
                   enhance_failed>>
    /\ UNCHANGED <<validateVars, splitVars, sizeVars, labelGenVars>>

InLoop == pc = "loop" /\ idx <= Len(image_files)
img_path == image_files[idx]
CurImage == images["source"][img_path]
CurLabel == labels["source"][img_path]
Decision == Decide(CurImage, CurLabel, DOMAIN seen_hashes,
                   min_brightness, max_brightness)
\* seen_hashes[img_hash] = img_path
Remember == seen_hashes @@ (calculate_image_hash(CurImage) :> img_path)
\* shutil.copy2 raises SameFileError when source and destination are one file.
SameFile == output_dir = "source"

\* As RemoveNoLabel, but the image is hashed and remembered before the label
\* is looked for (the order of the module docstring).
RemoveNoLabel_Remembers ==
    /\ InLoop
    /\ Decision = "no_label"
    /\ hashed' = hashed \cup {img_path}
    /\ seen_hashes' = Remember
    /\ stats' = [stats EXCEPT !.no_label_removed = @ + 1]
    /\ log' = Append(log, <<img_path, "no_label">>)
    /\ idx' = idx + 1
    /\ UNCHANGED <<images, labels, source0, output_dir, min_brightness,
                   max_brightness, apply_enhancement, image_files,
                   pc, writes, enhance_failed>>
    /\ UNCHANGED <<validateVars, splitVars, sizeVars, labelGenVars>>

RemoveNoLabel ==
    /\ InLoop
    /\ Decision = "no_label"
    /\ stats' = [stats EXCEPT !.no_label_removed = @ + 1]
    /\ log' = Append(log, <<img_path, "no_label">>)
    /\ idx' = idx + 1
    /\ UNCHANGED <<images, labels, source0, output_dir, min_brightness,
                   max_brightness, apply_enhancement, image_files,
                   seen_hashes, pc, hashed, writes, enhance_failed>>
    /\ UNCHANGED <<validateVars, splitVars, sizeVars, labelGenVars>>

RemoveInvalidBbox ==
    /\ InLoop
    /\ Decision = "invalid_bbox"
    /\ stats' = [stats EXCEPT !.invalid_bbox_removed = @ + 1]
    /\ log' = Append(log, <<img_path, "invalid_bbox">>)
    /\ idx' = idx + 1
    /\ UNCHANGED <<images, labels, source0, output_dir, min_brightness,
                   max_brightness, apply_enhancement, image_files,
                   seen_hashes, pc, hashed, writes, enhance_failed>>
    /\ UNCHANGED <<validateVars, splitVars, sizeVars, labelGenVars>>

RemoveDuplicate ==
    /\ InLoop
    /\ Decision = "duplicate"
    /\ hashed' = hashed \cup {img_path}
    /\ stats' = [stats EXCEPT !.duplicates_removed = @ + 1]
    /\ log' = Append(log, <<img_path, "duplicate">>)
    /\ idx' = idx + 1
    /\ UNCHANGED <<images, labels, source0, output_dir, min_brightness,
                   max_brightness, apply_enhancement, image_files,
                   seen_hashes, pc, writes, enhance_failed>>
    /\ UNCHANGED <<validateVars, splitVars, sizeVars, labelGenVars>>

RemoveTooDark ==
    /\ InLoop
    /\ Decision = "too_dark"
    /\ hashed' = hashed \cup {img_path}
    /\ seen_hashes' = Remember
    /\ stats' = [stats EXCEPT !.too_dark_removed = @ + 1]
    /\ log' = Append(log, <<img_path, "too_dark">>)
    /\ idx' = idx + 1
    /\ UNCHANGED <<images, labels, source0, output_dir, min_brightness,
                   max_brightness, apply_enhancement, image_files,
                   pc, writes, enhance_failed>>
    /\ UNCHANGED <<validateVars, splitVars, sizeVars, labelGenVars>>

RemoveTooBright ==
    /\ InLoop
    /\ Decision = "too_bright"
    /\ hashed' = hashed \cup {img_path}
    /\ seen_hashes' = Remember
    /\ stats' = [stats EXCEPT !.too_bright_removed = @ + 1]
    /\ log' = Append(log, <<img_path, "too_bright">>)
    /\ idx' = idx + 1
    /\ UNCHANGED <<images, labels, source0, output_dir, min_brightness,
                   max_brightness, apply_enhancement, image_files,
                   pc, writes, enhance_failed>>
    /\ UNCHANGED <<validateVars, splitVars, sizeVars, labelGenVars>>


\* The image passed checks 1 to 4: its hash is in seen_hashes (line 214).
Passed ==
    /\ InLoop
    /\ Decision = "pass"
    /\ hashed' = hashed \cup {img_path}
    /\ seen_hashes' = Remember

\* apply_enhancement and enhance_image returned True: the re-encoded image is
\* saved at output_dir / img_path.name and enhanced is counted.
EnhanceImage ==
    /\ Passed
    /\ apply_enhancement
    /\ PilMaySucceed(CurImage)
    /\ images' = [images EXCEPT ![output_dir][img_path] =
                     [CurImage EXCEPT !.enhanced = TRUE]]
    /\ writes' = writes \cup {<<img_path, "image">>}
    /\ stats' = [stats EXCEPT !.enhanced = @ + 1]
    /\ pc' = "label"
    /\ UNCHANGED <<labels, source0, output_dir, min_brightness,
                   max_brightness, apply_enhancement, image_files, idx, log,
                   enhance_failed>>
    /\ UNCHANGED <<validateVars, splitVars, sizeVars, labelGenVars>>

\* apply_enhancement and enhance_image caught an exception and returned
\* False (nothing written): shutil.copy2 of the image instead.
EnhanceFallbackCopy ==
    /\ Passed
    /\ apply_enhancement
    /\ enhance_failed' = enhance_failed \cup {img_path}
    /\ IF SameFile
       THEN /\ pc' = "raised"
            /\ UNCHANGED <<images, writes>>
       ELSE /\ images' = [images EXCEPT ![output_dir][img_path] = CurImage]
            /\ writes' = writes \cup {<<img_path, "image">>}
            /\ pc' = "label"
    /\ UNCHANGED <<labels, source0, output_dir, min_brightness,
                   max_brightness, apply_enhancement, image_files, idx, log,
                   stats>>
    /\ UNCHANGED <<validateVars, splitVars, sizeVars, labelGenVars>>

\* As CopyImage, but the plain copy is counted as an enhancement.
CopyImage_CountsEnhanced ==
    /\ Passed
    /\ ~apply_enhancement
    /\ IF SameFile
       THEN /\ pc' = "raised"
            /\ UNCHANGED <<images, writes, stats>>
       ELSE /\ images' = [images EXCEPT ![output_dir][img_path] = CurImage]
            /\ writes' = writes \cup {<<img_path, "image">>}
            /\ stats' = [stats EXCEPT !.enhanced = @ + 1]
            /\ pc' = "label"
    /\ UNCHANGED <<labels, source0, output_dir, min_brightness,
                   max_brightness, apply_enhancement, image_files, idx, log,
                   enhance_failed>>
    /\ UNCHANGED <<validateVars, splitVars, sizeVars, labelGenVars>>

\* not apply_enhancement: shutil.copy2 of the image.
CopyImage ==
    /\ Passed
    /\ ~apply_enhancement
    /\ IF SameFile
       THEN /\ pc' = "raised"
            /\ UNCHANGED <<images, writes>>
       ELSE /\ images' = [images EXCEPT ![output_dir][img_path] = CurImage]
            /\ writes' = writes \cup {<<img_path, "image">>}
            /\ pc' = "label"
    /\ UNCHANGED <<labels, source0, output_dir, min_brightness,
                   max_brightness, apply_enhancement, image_files, idx, log,
                   stats, enhance_failed>>
    /\ UNCHANGED <<validateVars, splitVars, sizeVars, labelGenVars>>

\* As CopyLabel, but the label file is not copied.
CopyLabel_CountOnly ==
    /\ pc = "label"
    /\ stats' = [stats EXCEPT !.kept = @ + 1]
    /\ log' = Append(log, <<img_path, "kept">>)
    /\ idx' = idx + 1
    /\ pc' = "loop"
    /\ UNCHANGED <<labels, writes>>
    /\ UNCHANGED <<images, source0, output_dir, min_brightness,
                   max_brightness, apply_enhancement, image_files,
                   seen_hashes, hashed, enhance_failed>>
    /\ UNCHANGED <<validateVars, splitVars, sizeVars, labelGenVars>>

\* shutil.copy2 of the label, then kept is counted.
CopyLabel ==
    /\ pc = "label"
    /\ IF SameFile
       THEN /\ pc' = "raised"
            /\ UNCHANGED <<labels, writes, stats, log, idx>>
       ELSE /\ labels' = [labels EXCEPT ![output_dir][img_path] = CurLabel]
            /\ writes' = writes \cup {<<img_path, "label">>}
            /\ stats' = [stats EXCEPT !.kept = @ + 1]
            /\ log' = Append(log, <<img_path, "kept">>)
            /\ idx' = idx + 1
            /\ pc' = "loop"
    /\ UNCHANGED <<images, source0, output_dir, min_brightness,
                   max_brightness, apply_enhancement, image_files,
                   seen_hashes, hashed, enhance_failed>>
    /\ UNCHANGED <<validateVars, splitVars, sizeVars, labelGenVars>>

\* return stats
Return ==
    /\ pc = "loop"
    /\ idx > Len(image_files)
    /\ pc' = "done"
    /\ UNCHANGED <<images, labels, source0, output_dir, min_brightness,
                   max_brightness, apply_enhancement, image_files, stats,
                   seen_hashes, idx, log, hashed, writes, enhance_failed>>
    /\ UNCHANGED <<validateVars, splitVars, sizeVars, labelGenVars>>

Next ==
    \/ Discover
    \/ RemoveNoLabel
    \/ RemoveInvalidBbox
    \/ RemoveDuplicate
    \/ RemoveTooDark
    \/ RemoveTooBright
    \/ EnhanceImage
    \/ EnhanceFallbackCopy
    \/ CopyImage
    \/ CopyLabel
    \/ Return

Spec == Init /\ [][Next]_vars

\* ==================================================== validate_bounding_boxes
CleanIdle ==
    /\ images = [d \in Dirs |-> [i \in Ids |-> NoImage]]
    /\ labels = [d \in Dirs |-> [i \in Ids |-> NoLabelFile]]
    /\ source0 = [img |-> images["source"], lbl |-> labels["source"]]
    /\ output_dir = "output"
    /\ min_brightness = DefaultMinBrightness
    /\ max_brightness = DefaultMaxBrightness
    /\ apply_enhancement = FALSE
    /\ image_files = <<>>
    /\ stats = ZeroStats
    /\ seen_hashes = <<>>
    /\ idx = 1
    /\ pc = "idle"
    /\ log = <<>>
    /\ hashed = {}
    /\ writes = {}
    /\ enhance_failed = {}

InitValidate ==
    /\ CleanIdle
    /\ SplitIdle
    /\ SizesIdle
    /\ LabelGenIdle
    /\ vfile \in LabelFiles
    /\ vresult = FALSE
    /\ vpc = "call"

Validate ==
    /\ vpc = "call"
    /\ vresult' = validate_bounding_boxes(vfile)
    /\ vpc' = "returned"
    /\ UNCHANGED vfile
    /\ UNCHANGED <<cleanVars, splitVars, sizeVars, labelGenVars>>

NextValidate == Validate

SpecValidate == InitValidate /\ [][NextValidate]_vars


\* ============================================================= Python floats
\* train_ratio and val_ratio are binary floating-point numbers and so are
\* n_total * train_ratio and train_ratio + val_ratio: every result is rounded
\* to MantBits significant bits, to nearest, ties to even. A float is written
\* as the integer x that stands for x / One; floats below 2^MantBits / One
\* are the subnormal ones.
FracBits == MantBits + 2
One == 2 ^ FracBits

RECURSIVE ShiftOf(_)
ShiftOf(x) == IF x < 2 ^ MantBits THEN 0 ELSE 1 + ShiftOf(x \div 2)

\* The float nearest to the exact value x.
RoundFloat(x) ==
    LET s == ShiftOf(x)
        q == x \div (2 ^ s)
        r == x % (2 ^ s)
    IN IF s = 0 THEN x
       ELSE IF 2 * r > 2 ^ s \/ (2 * r = 2 ^ s /\ q % 2 = 1)
            THEN (q + 1) * (2 ^ s)
            ELSE q * (2 ^ s)

\* The floats of [0, 2].
Floats == {x \in 0..(2 * One) : RoundFloat(x) = x}

Abs(x) == IF x < 0 THEN 0 - x ELSE x

\* The float a decimal literal num/den is read as.
FloatOf(num, den) ==
    CHOOSE f \in Floats :
        \A g \in Floats : Abs(f * den - num * One) <= Abs(g * den - num * One)

\* n * x for an int n and a float x; x + y.
float_mul(n, x) == RoundFloat(n * x)
float_add(x, y) == RoundFloat(x + y)

\* As int, but to the nearest integer.
int_Nearest(x) == (2 * x + One) \div (2 * One)

\* int(x) for a float x >= 0.
int(x) == x \div One

DefaultTrainRatio == FloatOf(7, 10)
DefaultValRatio == FloatOf(15, 100)

\* ============================================================== split_dataset
\* As ratios_ok, but without the second assert statement.
ratios_ok_NoSumCheck(train_ratio, val_ratio) ==
    /\ 0 < train_ratio /\ train_ratio < One
    /\ 0 < val_ratio /\ val_ratio < One

\* The two assert statements.
ratios_ok(train_ratio, val_ratio) ==
    /\ 0 < train_ratio /\ train_ratio < One
    /\ 0 < val_ratio /\ val_ratio < One
    /\ float_add(train_ratio, val_ratio) < One

\* n_train, n_val, n_test.
split_sizes(n_total, train_ratio, val_ratio) ==
    LET n_train == int(float_mul(n_total, train_ratio))
        n_val == int(float_mul(n_total, val_ratio))
    IN [n_train |-> n_train, n_val |-> n_val,
        n_test |-> n_total - n_train - n_val]

\* An image path is <<stem, suffix>>, its label path the stem; a few stems
\* have both a .jpg and a .jpeg image.
Stems == 1..MaxStems
JpegStems == {1}
ImagePaths == (Stems \X {"jpg"}) \cup (JpegStems \X {"jpeg"})
PathLess(a, b) ==
    \/ a[1] < b[1]
    \/ a[1] = b[1] /\ a[2] = "jpeg" /\ b[2] = "jpg"

\* As sorted, but the list is left in the order glob gave it.
sorted_GlobOrder(s) == s

RECURSIVE sorted(_)
sorted(s) ==
    IF s = <<>> THEN <<>>
    ELSE LET m == CHOOSE i \in DOMAIN s :
                      \A j \in DOMAIN s : ~PathLess(s[j], s[i])
         IN <<s[m]>> \o sorted(SubSeq(s, 1, m - 1) \o SubSeq(s, m + 1, Len(s)))

\* As valid_pairs, but label_path.exists() is not asked.
valid_pairs_All(image_paths, dir) ==
    [k \in DOMAIN image_paths |-> <<image_paths[k], image_paths[k][1]>>]

\* (img_path, label_path) for the images whose label_path exists.
valid_pairs(image_paths, dir) ==
    LET kept == SelectSeq(image_paths, LAMBDA p : p[1] \in dir.labels)
    IN [k \in DOMAIN kept |-> <<kept[k], kept[k][1]>>]

\* random.seed(seed); random.shuffle(x): the generator is a function of the
\* seed and of the number of draws (a linear congruential one stands for the
\* Mersenne Twister), the shuffle is the library's: for i from the last
\* index down to the second, swap x[i] with x[j], j drawn from the first i.
rng_next(state) == (state * 13 + 3) % 64
RECURSIVE shuffle_from(_, _, _)
shuffle_from(x, i, state) ==
    IF i < 2 THEN x
    ELSE LET st == rng_next(state)
             j == ((st \div 2) % i) + 1
         IN shuffle_from([x EXCEPT ![i] = x[j], ![j] = x[i]], i - 1, st)
shuffle(x, seed) == shuffle_from(x, Len(x), seed % 64)

\* As Slice, but the element at b is taken too.
Slice_Inclusive(x, a, b) ==
    SubSeq(x, a + 1, IF b + 1 < Len(x) THEN b + 1 ELSE Len(x))

\* x[a:b] for 0 <= a <= b: the end is cut at the length of x.
Slice(x, a, b) == SubSeq(x, a + 1, IF b < Len(x) THEN b ELSE Len(x))


\* The split directories: [exists, images, labels] of output_root/<split>.
Splits == {"train", "val", "test"}
EmptyRoot == [d \in Splits |-> [exists |-> FALSE, images |-> {}, labels |-> {}]]

\* mkdir(parents=True, exist_ok=True) of both directories, then copy2 of
\* every pair's image and label under their own names.
prepare_split(split_name, pairs, root) ==
    [root EXCEPT ![split_name] =
        [exists |-> TRUE,
         images |-> @.images \cup {q[1] : q \in Range(pairs)},
         labels |-> @.labels \cup {q[2] : q \in Range(pairs)}]]

NoLocals ==
    [image_paths |-> <<>>, valid_images |-> <<>>,
     n_total |-> 0, n_train |-> 0, n_val |-> 0, n_test |-> 0,
     train_set |-> <<>>, val_set |-> <<>>, test_set |-> <<>>]

SampleRatios == {0, DefaultValRatio, FloatOf(3, 10), DefaultTrainRatio, One}
Seeds == {DefaultSeed, DefaultSeed + 1}
SplitArgs == [train_ratio : SampleRatios, val_ratio : SampleRatios, seed : Seeds]

\* Directories of images with or without a label; a label without an image
\* is never looked at.
SourceDirs ==
    {[images |-> I, labels |-> L] :
        I \in SUBSET ImagePaths,
        L \in SUBSET Stems} \cap
    {dir \in [images : SUBSET ImagePaths, labels : SUBSET Stems] :
        dir.labels \subseteq {q[1] : q \in dir.images}}

InitSplit ==
    /\ CleanIdle
    /\ ValidateIdle
    /\ SizesIdle
    /\ LabelGenIdle
    /\ source_dir \in SourceDirs
    /\ output_root = EmptyRoot
    /\ args \in SplitArgs
    /\ spc = "call"
    /\ loc = NoLocals
    /\ hist = [call |-> 1, io |-> {}, copied |-> {}, prev |-> <<>>]

splitRest == <<cleanVars, validateVars, sizeVars, labelGenVars>>

CheckRatios ==
    /\ spc = "call"
    /\ spc' = IF ratios_ok(args.train_ratio, args.val_ratio)
              THEN "glob" ELSE "AssertionError"
    /\ UNCHANGED <<source_dir, output_root, args, loc, hist>>
    /\ UNCHANGED splitRest

GlobImages ==
    /\ spc = "glob"
    /\ \E jpg \in Perms({q \in source_dir.images : q[2] = "jpg"}),
          jpeg \in Perms({q \in source_dir.images : q[2] = "jpeg"}) :
         loc' = [loc EXCEPT !.image_paths = sorted(jpg \o jpeg)]
    /\ hist' = [hist EXCEPT !.io = @ \cup {"glob"}]
    /\ spc' = IF source_dir.images = {} THEN "RuntimeError" ELSE "pairs"
    /\ UNCHANGED <<source_dir, output_root, args>>
    /\ UNCHANGED splitRest

CollectPairs ==
    /\ spc = "pairs"
    /\ loc' = [loc EXCEPT !.valid_images = valid_pairs(loc.image_paths, source_dir)]
    /\ hist' = [hist EXCEPT !.io = @ \cup {"exists"}]
    /\ spc' = IF loc'.valid_images = <<>> THEN "RuntimeError" ELSE "shuffle"
    /\ UNCHANGED <<source_dir, output_root, args>>
    /\ UNCHANGED splitRest

ShuffleAndSlice ==
    /\ spc = "shuffle"
    /\ LET shuffled == shuffle(loc.valid_images, args.seed)
           n_total == Len(shuffled)
           n == split_sizes(n_total, args.train_ratio, args.val_ratio)
       IN loc' = [loc EXCEPT
               !.valid_images = shuffled,
               !.n_total = n_total,
               !.n_train = n.n_train,
               !.n_val = n.n_val,
               !.n_test = n.n_test,
               !.train_set = Slice(shuffled, 0, n.n_train),
               !.val_set = Slice(shuffled, n.n_train, n.n_train + n.n_val),
               !.test_set = Slice(shuffled, n.n_train + n.n_val, n_total)]
    /\ spc' = "train"
    /\ UNCHANGED <<source_dir, output_root, args, hist>>
    /\ UNCHANGED splitRest

PrepareSplit(split_name, pairs, after) ==
    /\ output_root' = prepare_split(split_name, pairs, output_root)
    /\ hist' = [hist EXCEPT
           !.io = @ \cup {"mkdir"} \cup (IF pairs = <<>> THEN {} ELSE {"copy"}),
           !.copied = @ \cup {<<split_name, q>> : q \in Range(pairs)}]
    /\ spc' = after
    /\ UNCHANGED <<source_dir, args, loc>>
    /\ UNCHANGED splitRest

PrepareTrain ==
    /\ spc = "train"
    /\ PrepareSplit("train", loc.train_set, "val")

PrepareVal ==
    /\ spc = "val"
    /\ PrepareSplit("val", loc.val_set, "test")

PrepareTest ==
    /\ spc = "test"
    /\ PrepareSplit("test", loc.test_set, "done")

\* After a call that split the directory the script is run once more on the
\* same directories, with any arguments. (A call that raised has written
\* nothing, so a call after it starts as a first call does.)
Rerun ==
    /\ spc = "done"
    /\ hist.call = 1
    /\ args' \in SplitArgs
    /\ spc' = "call"
    /\ loc' = NoLocals
    /\ hist' = [call |-> 2, io |-> {}, copied |-> {},
                prev |-> [args |-> args, spc |-> spc, loc |-> loc,
                          output_root |-> output_root]]
    /\ UNCHANGED <<source_dir, output_root>>
    /\ UNCHANGED splitRest

NextSplit ==
    \/ CheckRatios
    \/ GlobImages
    \/ CollectPairs
    \/ ShuffleAndSlice
    \/ PrepareTrain
    \/ PrepareVal
    \/ PrepareTest
    \/ Rerun

SpecSplit == InitSplit /\ [][NextSplit]_vars


\* ------------------------------------------- the ratio check and the sizes
\* The asserts and the size computation of split_dataset for n_total valid
\* pairs and every pair of floats of [0, 1] as ratios.
InitSizes ==
    /\ CleanIdle
    /\ ValidateIdle
    /\ SplitIdle
    /\ LabelGenIdle
    /\ \E n \in 1..MaxTotal, t, v \in {x \in Floats : x <= One} :
         sz = [n_total |-> n, train_ratio |-> t, val_ratio |-> v,
               pc |-> "call", sizes |-> <<>>]

SizesCheckRatios ==
    /\ sz.pc = "call"
    /\ sz' = [sz EXCEPT !.pc = IF ratios_ok(sz.train_ratio, sz.val_ratio)
                               THEN "sizes" ELSE "AssertionError"]
    /\ UNCHANGED <<cleanVars, validateVars, splitVars, labelGenVars>>

ComputeSizes ==
    /\ sz.pc = "sizes"
    /\ sz' = [sz EXCEPT
           !.sizes = split_sizes(sz.n_total, sz.train_ratio, sz.val_ratio),
           !.pc = "done"]
    /\ UNCHANGED <<cleanVars, validateVars, splitVars, labelGenVars>>

NextSizes ==
    \/ SizesCheckRatios
    \/ ComputeSizes

SpecSizes == InitSizes /\ [][NextSizes]_vars


\* ============================================ generate_yolo_labels_for_laptop
\* images_dir is [images, labels]: the stems of its .jpg files and its .txt
\* files as a function stem -> lines. A CSV row is [LabelName, ImageID, box];
\* box.parses is FALSE when float() rejects one of XMin, XMax, YMin, YMax,
\* else the box holds the four numbers in quarters. A label line is
\* <<0, x_center, y_center, width, height>> in eighths (six decimals hold
\* an eighth exactly).
GenStems == 1..3
Box(xmin, xmax, ymin, ymax) ==
    [parses |-> TRUE, XMin |-> xmin, XMax |-> xmax, YMin |-> ymin, YMax |-> ymax]
Unparsable ==
    [parses |-> FALSE, XMin |-> 0, XMax |-> 0, YMin |-> 0, YMax |-> 0]
Boxes == {Box(0, 2, 0, 2), Box(2, 4, 1, 3), Box(4, 8, 0, 2), Unparsable}
Row(label, image, box) == [LabelName |-> label, ImageID |-> image, box |-> box]
Rows ==
    {Row("laptop", i, b) : i \in {1, 2}, b \in Boxes}
    \cup {Row("other", 1, Box(0, 2, 0, 2)), Row("laptop", 3, Box(0, 2, 0, 2))}
ImagesDirs ==
    {[images |-> I, labels |-> [t \in L |-> <<"old">>]] :
        I \in {{}, {1}, {1, 2}}, L \in {{}, {1, 3}}}

x_center(b) == b.XMin + b.XMax
y_center(b) == b.YMin + b.YMax
width(b) == 2 * (b.XMax - b.XMin)
height(b) == 2 * (b.YMax - b.YMin)
CentreOk(b) ==
    /\ 0 <= x_center(b) /\ x_center(b) <= 8
    /\ 0 <= y_center(b) /\ y_center(b) <= 8
LabelLine(b) == <<0, x_center(b), y_center(b), width(b), height(b)>>

InitLabels ==
    /\ CleanIdle
    /\ ValidateIdle
    /\ SplitIdle
    /\ SizesIdle
    /\ images_dir \in ImagesDirs
    /\ annotations \in SeqsUpTo(Rows, MaxRows)
    /\ gen = [pc |-> "call", row |-> 1, current_image |-> 0,
              num_boxes |-> 0, num_images |-> 0]

genRest == <<cleanVars, validateVars, splitVars, sizeVars>>

\* Lines 33-50: the stems, the RuntimeError, the unlink of every .txt.
GenStart ==
    /\ gen.pc = "call"
    /\ IF images_dir.images = {}
       THEN /\ gen' = [gen EXCEPT !.pc = "RuntimeError"]
            /\ UNCHANGED images_dir
       ELSE /\ gen' = [gen EXCEPT !.pc = "rows"]
            /\ images_dir' = [images_dir EXCEPT !.labels = <<>>]
    /\ UNCHANGED annotations
    /\ UNCHANGED genRest

InRows == gen.pc = "rows" /\ gen.row <= Len(annotations)
CurRow == annotations[gen.row]

\* Why the row is skipped, or "write".
RowDecision(row, image_stems) ==
    IF row.LabelName /= "laptop" THEN "other_label"
    ELSE IF row.ImageID \notin image_stems THEN "not_downloaded"
    ELSE IF ~row.box.parses THEN "unparsable"
    ELSE IF ~CentreOk(row.box) THEN "centre_out"
    ELSE "write"

SkipRow ==
    /\ InRows
    /\ RowDecision(CurRow, images_dir.images) /= "write"
    /\ gen' = [gen EXCEPT !.row = @ + 1]
    /\ UNCHANGED <<images_dir, annotations>>
    /\ UNCHANGED genRest

\* label_path.open("w"): the file is there and empty.
OpenLabel(files, image_id) ==
    [t \in DOMAIN files \cup {image_id} |->
        IF t = image_id THEN <<>> ELSE files[t]]

WriteBox ==
    /\ InRows
    /\ RowDecision(CurRow, images_dir.images) = "write"
    /\ LET image_id == CurRow.ImageID
           reopen == gen.current_image /= image_id
           files == IF reopen THEN OpenLabel(images_dir.labels, image_id)
                    ELSE images_dir.labels
       IN /\ images_dir' = [images_dir EXCEPT !.labels =
                  [files EXCEPT ![image_id] = Append(@, LabelLine(CurRow.box))]]
          /\ gen' = [gen EXCEPT
                 !.current_image = image_id,
                 !.num_images = IF reopen THEN @ + 1 ELSE @,
                 !.num_boxes = @ + 1,
                 !.row = @ + 1]
    /\ UNCHANGED annotations
    /\ UNCHANGED genRest

GenFinish ==
    /\ gen.pc = "rows"
    /\ gen.row > Len(annotations)
    /\ gen' = [gen EXCEPT !.pc = "done"]
    /\ UNCHANGED <<images_dir, annotations>>
    /\ UNCHANGED genRest

NextLabels ==
    \/ GenStart
    \/ SkipRow
    \/ WriteBox
    \/ GenFinish

SpecLabels == InitLabels /\ [][NextLabels]_vars


\* ================================================== the loop as a function
\* The outcomes the for loop of clean_dataset gives when iterdir lists the
\* images in the given order and every copy succeeds: position k onwards,
\* with seen the keys of seen_hashes so far.
RECURSIVE clean_dataset_outcomes(_, _, _)
clean_dataset_outcomes(order, k, seen) ==
    IF k > Len(order) THEN <<>>
    ELSE LET i == order[k]
             d == Decide(source0.img[i], source0.lbl[i], seen,
                         min_brightness, max_brightness)
             seenNext == IF d \in {"no_label", "invalid_bbox", "duplicate"}
                         THEN seen
                         ELSE seen \cup {calculate_image_hash(source0.img[i])}
         IN <<<<i, IF d = "pass" THEN "kept" ELSE d>>>>
            \o clean_dataset_outcomes(order, k + 1, seenNext)

\* ===================================================================== claims
Present == {i \in Ids : source0.img[i].exists}
LogIdx == 1..Len(log)
Logged == {log[k][1] : k \in LogIdx}
OutcomesOf(i) == {log[k][2] : k \in {j \in LogIdx : log[j][1] = i}}
CountLog(o) == Cardinality({k \in LogIdx : log[k][2] = o})
Rejections == {"no_label", "invalid_bbox", "duplicate", "too_dark", "too_bright"}
ValidLabel(i) == source0.lbl[i].exists /\ validate_bounding_boxes(source0.lbl[i])
SameBytes(i, j) == source0.img[i].bytes = source0.img[j].bytes
\* Position of image i in the discovery order.
Pos(i) == CHOOSE k \in 1..Len(image_files) : image_files[k] = i
Before(i, j) == Pos(i) < Pos(j)

\* C1: when clean_dataset returns, total_images is the number of image files
\* discovered and equals the sum of the five removal counts and kept.
C1_StatsSumToTotal ==
    pc = "done" =>
        /\ stats.total_images = Cardinality(Present)
        /\ stats.total_images =
               stats.no_label_removed + stats.invalid_bbox_removed
               + stats.duplicates_removed + stats.too_dark_removed
               + stats.too_bright_removed + stats.kept

C1_Witness ==
    /\ pc = "done"
    /\ stats.total_images = 3
    /\ stats.no_label_removed = 1
    /\ stats.duplicates_removed = 1
    /\ stats.kept = 1

\* C2: every image gets at most one outcome while the run lasts and exactly
\* one when it returns, each outcome is counted on its own counter only, and
\* the outcome is that of the first rule that matches in the order missing
\* label, invalid boxes, duplicate, brightness; an image with no label or
\* with invalid boxes is never hashed and never entered in seen_hashes.
C2_FirstMatchingRuleWins ==
    /\ \A j \in LogIdx : \A k \in LogIdx : log[j][1] = log[k][1] => j = k
    /\ pc = "done" => Logged = Present
    /\ stats.no_label_removed = CountLog("no_label")
    /\ stats.invalid_bbox_removed = CountLog("invalid_bbox")
    /\ stats.duplicates_removed = CountLog("duplicate")
    /\ stats.too_dark_removed = CountLog("too_dark")
    /\ stats.too_bright_removed = CountLog("too_bright")
    /\ stats.kept = CountLog("kept")
    /\ \A k \in LogIdx :
         LET i == log[k][1]
             o == log[k][2]
             image == source0.img[i]
             label == source0.lbl[i]
             earlierSame == {j \in 1..(k - 1) :
                                /\ ValidLabel(log[j][1])
                                /\ SameBytes(log[j][1], i)}
         IN /\ ~label.exists =>
                  o = "no_label" /\ i \notin hashed /\ i \notin Range(seen_hashes)
            /\ label.exists /\ ~ValidLabel(i) =>
                  o = "invalid_bbox" /\ i \notin hashed /\ i \notin Range(seen_hashes)
            /\ ValidLabel(i) /\ earlierSame # {} => o = "duplicate"
            /\ ValidLabel(i) /\ earlierSame = {} =>
                  /\ o \in {"too_dark", "too_bright", "kept"}
                  /\ ~imread_is_None(image) =>
                        /\ o = "too_dark" <=> MeanGray(image) < min_brightness
                        /\ o = "too_bright" <=>
                              /\ MeanGray(image) >= min_brightness
                              /\ MeanGray(image) > max_brightness

\* An unlabelled image with the bytes of an image hashed before it, and a
\* dark image that is a duplicate: each is charged to the earlier rule.
C2_Witness ==
    /\ pc = "done"
    /\ \E j \in LogIdx : \E k \in LogIdx :
         /\ j < k
         /\ log[j][2] = "too_dark"
         /\ log[k][2] = "no_label"
         /\ SameBytes(log[j][1], log[k][1])
    /\ \E j \in LogIdx : \E k \in LogIdx :
         /\ j < k
         /\ log[j][2] = "too_dark"
         /\ log[k][2] = "duplicate"

\* C3 as stated: of byte-identical images the first discovered is kept and
\* every other one is counted as duplicate.
C3_FirstKeptRestDuplicate ==
    pc = "done" =>
        \A i \in Present : \A j \in Present :
            (i # j /\ SameBytes(i, j) /\ Before(i, j)) =>
                /\ OutcomesOf(j) = {"duplicate"}
                /\ (\A h \in Present : SameBytes(h, i) /\ h # i => Before(i, h))
                       => OutcomesOf(i) = {"kept"}

\* C3 amended: among byte-identical images, those whose label is missing or
\* invalid are no_label or invalid_bbox; of those with a valid label the
\* first discovered is never a duplicate (it is kept unless it is too dark or
\* too bright) and every later one is a duplicate; so at most one is kept.
C3_FirstValidDecidesRestDuplicate ==
    pc = "done" =>
        /\ \A i \in Present :
             LET earlier == {h \in Present :
                               ValidLabel(h) /\ SameBytes(h, i) /\ Before(h, i)}
             IN /\ ~ValidLabel(i) => OutcomesOf(i) \subseteq {"no_label", "invalid_bbox"}
                /\ ValidLabel(i) /\ earlier # {} => OutcomesOf(i) = {"duplicate"}
                /\ ValidLabel(i) /\ earlier = {} =>
                       /\ Cardinality(OutcomesOf(i)) = 1
                       /\ OutcomesOf(i) \subseteq {"kept", "too_dark", "too_bright"}
        /\ \A i \in Present : \A j \in Present :
             (SameBytes(i, j) /\ "kept" \in OutcomesOf(i) /\ "kept" \in OutcomesOf(j))
                 => i = j

\* Three byte-identical images: the first has no label, the second is the
\* one kept, the third is the duplicate.
C3_Witness ==
    /\ pc = "done"
    /\ Len(log) = 3
    /\ SameBytes(log[1][1], log[2][1])
    /\ SameBytes(log[2][1], log[3][1])
    /\ log[1][2] = "no_label"
    /\ log[2][2] = "kept"
    /\ log[3][2] = "duplicate"

\* C4 as stated: an image cv2 cannot decode passes the brightness check; it
\* is never counted as too dark or too bright.
C4_UndecodablePassesBrightness ==
    \A k \in LogIdx :
        imread_is_None(source0.img[log[k][1]]) =>
            log[k][2] \notin {"too_dark", "too_bright"}

\* C5: every kept image is in output_dir under its own name with its label
\* beside it, and for a rejected image nothing is written; a fresh output
\* directory holds the kept pairs and nothing else.
C5_OutputMirrorsKept ==
    \A k \in LogIdx :
        LET i == log[k][1]
        IN /\ log[k][2] = "kept" =>
                 /\ images[output_dir][i].exists
                 /\ images[output_dir][i].bytes = source0.img[i].bytes
                 /\ labels[output_dir][i] = source0.lbl[i]
                 /\ {<<i, "image">>, <<i, "label">>} \subseteq writes
           /\ log[k][2] \in Rejections =>
                 /\ \A f \in {"image", "label"} : <<i, f>> \notin writes
                 /\ output_dir # "source" =>
                        /\ ~images[output_dir][i].exists
                        /\ ~labels[output_dir][i].exists

C5_Witness ==
    /\ pc = "done"
    /\ output_dir = "output"
    /\ \E j \in LogIdx : log[j][2] = "kept"
    /\ \E j \in LogIdx : log[j][2] = "too_dark"
    /\ \E j \in LogIdx : log[j][2] = "duplicate"

\* C6 as stated: after enhance_image failed for an accepted image the run
\* goes on: the image is in output_dir with its source bytes, and once the
\* image is done its label is copied, it is kept and it is not enhanced.
C6_FallbackCopyAndContinue ==
    \A i \in enhance_failed :
        /\ pc # "raised"
        /\ (pc = "label" \/ i \in Logged) =>
               images[output_dir][i] = source0.img[i]
        /\ i \in Logged =>
               /\ OutcomesOf(i) = {"kept"}
               /\ labels[output_dir][i] = source0.lbl[i]

\* C7 as stated: enhanced <= kept in every state, and enhanced = 0 when
\* enhancement is disabled.
C7_EnhancedAtMostKeptAlways ==
    /\ stats.enhanced <= stats.kept
    /\ ~apply_enhancement => stats.enhanced = 0

\* C7 amended: enhanced <= kept between two images and at return; while an
\* accepted image is being written enhanced is at most kept + 1; enhanced = 0
\* in every state when enhancement is disabled.
C7_EnhancedAtMostKeptBetweenImages ==
    /\ pc \in {"call", "loop", "done"} => stats.enhanced <= stats.kept
    /\ stats.enhanced <= stats.kept + 1
    /\ ~apply_enhancement => stats.enhanced = 0

\* A run that returned with one image enhanced and one copied as fallback.
C7_Witness ==
    /\ pc = "done"
    /\ apply_enhancement
    /\ stats.enhanced = 1
    /\ stats.kept = 2

\* C8 as stated: the source directory is the same in every state of the run
\* as when the run started.
C8_SourceNeverModified ==
    /\ images["source"] = source0.img
    /\ labels["source"] = source0.lbl


\* C9: validate_bounding_boxes returns True exactly for a label file that
\* exists, has at least one line, and whose every line has 5 tokens, an
\* integer class id, four numbers, centres in [0,1], sizes in (0,1] and
\* 0 <= centre - size/2 < centre + size/2 <= 1 on both axes.
BoxLineOk(line) ==
    /\ Len(line) = 5
    /\ line[1].form = "int"
    /\ \A k \in 2..5 : line[k].form \in {"int", "dec"}
    /\ \A axis \in {0, 1} :
         LET centre == line[2 + axis].v
             size == line[4 + axis].v
         IN /\ centre \in 0..Scale
            /\ size \in 1..Scale
            /\ 0 <= 2 * centre - size
            /\ 2 * centre - size < 2 * centre + size
            /\ 2 * centre + size <= 2 * Scale

C9_ValidateIffAllLinesOk ==
    vpc = "returned" =>
        (vresult <=>
            /\ vfile.exists
            /\ vfile.readable
            /\ Len(vfile.lines) >= 1
            /\ \A k \in 1..Len(vfile.lines) : BoxLineOk(vfile.lines[k]))

\* A file whose first line is a valid box and whose second line is blank.
C9_Witness ==
    /\ vpc = "returned"
    /\ vresult = FALSE
    /\ Len(vfile.lines) = 2
    /\ BoxLineOk(vfile.lines[1])
    /\ vfile.lines[2] = <<>>

\* C10: whatever order iterdir gave the images in, the six counts that
\* clean_dataset returns are those of the run that takes the same images in
\* name order, the kept images have the same contents as in that run, and no
\* two kept images have the same content. (Discover takes every order, so
\* every order of a directory is compared with the same reference run.)
CountIn(r, o) == Cardinality({k \in 1..Len(r) : r[k][2] = o})
KeptBytes(r) == {source0.img[r[k][1]].bytes : k \in {j \in 1..Len(r) : r[j][2] = "kept"}}
NameOrder == [k \in 1..Cardinality(Present) |-> k]
C10_CountsIndependentOfOrder ==
    pc = "done" =>
        \A r \in {clean_dataset_outcomes(NameOrder, 1, {})} :
            /\ CountIn(r, "no_label") = stats.no_label_removed
            /\ CountIn(r, "invalid_bbox") = stats.invalid_bbox_removed
            /\ CountIn(r, "duplicate") = stats.duplicates_removed
            /\ CountIn(r, "too_dark") = stats.too_dark_removed
            /\ CountIn(r, "too_bright") = stats.too_bright_removed
            /\ CountIn(r, "kept") = stats.kept
            /\ KeptBytes(r) = KeptBytes(log)
            /\ Cardinality(KeptBytes(r)) = CountIn(r, "kept")
            /\ Cardinality(KeptBytes(log)) = stats.kept

\* Two byte-identical dark images with valid labels and an unlabelled third
\* of the same bytes listed between them, in an order that is not the name
\* order, and the run returned.
C10_Witness ==
    /\ pc = "done"
    /\ image_files # NameOrder
    /\ Len(log) = 3
    /\ log[1][2] = "too_dark"
    /\ log[2][2] = "no_label"
    /\ log[3][2] = "duplicate"
    /\ SameBytes(log[1][1], log[2][1])


\* C16: an image is counted as duplicate only if seen_hashes holds its hash
\* for an image logged before it that had a label file and valid boxes and
\* was itself not a duplicate (kept, too dark or too bright); so the first
\* image of a content is never a duplicate.
C16_DuplicateOnlyOfEarlierHashed ==
    \A k \in LogIdx :
        log[k][2] = "duplicate" =>
            \E j \in 1..(k - 1) :
                /\ SameBytes(log[j][1], log[k][1])
                /\ ValidLabel(log[j][1])
                /\ log[j][2] \in {"kept", "too_dark", "too_bright"}
                /\ calculate_image_hash(source0.img[log[k][1]]) \in DOMAIN seen_hashes
                /\ seen_hashes[calculate_image_hash(source0.img[log[k][1]])] = log[j][1]

\* The first image of a content has no label, the second is too dark, and
\* the third is the duplicate of the second, not of the first.
C16_Witness ==
    /\ Len(log) = 3
    /\ SameBytes(log[1][1], log[3][1])
    /\ log[1][2] = "no_label"
    /\ log[2][2] = "too_dark"
    /\ log[3][2] = "duplicate"


\* ----------------------------------------------------- split_dataset claims
\* The valid pairs of source_dir, and the position reached in the call.
ValidPairSet ==
    {<<q, q[1]>> : q \in {i \in source_dir.images : i[1] \in source_dir.labels}}
Sliced == spc \in {"train", "val", "test", "done"}
SetOf(split_name) ==
    CASE split_name = "train" -> loc.train_set
      [] split_name = "val" -> loc.val_set
      [] split_name = "test" -> loc.test_set
SplitsOf(q) == {d \in Splits : <<d, q>> \in hist.copied}

\* C11: once split_dataset has sliced, train, val and test are the three
\* consecutive slices of the shuffled list at n_train and n_train+n_val, no
\* pair is in two of them, together they are the valid pairs of the source,
\* the three sizes add up to n_total, and when the call is done every pair
\* was copied to one split only, image to images/ and label to labels/.
C11_SlicesPartitionValidPairs ==
    Sliced =>
        /\ loc.train_set \o loc.val_set \o loc.test_set = loc.valid_images
        /\ Len(loc.train_set) = loc.n_train
        /\ Len(loc.val_set) = loc.n_val
        /\ Len(loc.test_set) = loc.n_test
        /\ loc.n_train + loc.n_val + loc.n_test = loc.n_total
        /\ loc.n_total = Cardinality(ValidPairSet)
        /\ Range(loc.valid_images) = ValidPairSet
        /\ \A d, e \in Splits :
              d /= e => Range(SetOf(d)) \cap Range(SetOf(e)) = {}
        /\ spc = "done" =>
              \A q \in ValidPairSet :
                  \E d \in Splits :
                      /\ SplitsOf(q) = {d}
                      /\ q \in Range(SetOf(d))
                      /\ q[1] \in output_root[d].images
                      /\ q[2] \in output_root[d].labels

\* A first call is done and each of the three splits got a pair.
C11_Witness ==
    /\ spc = "done"
    /\ hist.call = 1
    /\ \A d \in Splits : SetOf(d) /= <<>>


\* k is the floor of the float x.
IsFloor(k, x) == k * One <= x /\ x < (k + 1) * One
PrevDone == hist.call = 2 /\ hist.prev.spc = "done"

\* C12: n_train and n_val are the floors of the float products
\* n_total * train_ratio and n_total * val_ratio, n_test is the rest; 10 pairs
\* with 0.7 and 0.15 give 7, 1 and 2; and a second call with the same ratios
\* gives the same three sizes whatever its seed.
C12_SizesFromCountAndRatios ==
    /\ split_sizes(10, DefaultTrainRatio, DefaultValRatio)
           = [n_train |-> 7, n_val |-> 1, n_test |-> 2]
    /\ Sliced =>
        /\ loc.n_total = Cardinality(ValidPairSet)
        /\ IsFloor(loc.n_train, float_mul(loc.n_total, args.train_ratio))
        /\ IsFloor(loc.n_val, float_mul(loc.n_total, args.val_ratio))
        /\ loc.n_test = loc.n_total - loc.n_train - loc.n_val
        /\ (/\ PrevDone
            /\ hist.prev.args.train_ratio = args.train_ratio
            /\ hist.prev.args.val_ratio = args.val_ratio)
           => /\ loc.n_train = hist.prev.loc.n_train
              /\ loc.n_val = hist.prev.loc.n_val
              /\ loc.n_test = hist.prev.loc.n_test

\* The second call has the ratios of the first and another seed; it puts
\* other pairs into train, and as many.
C12_Witness ==
    /\ Sliced
    /\ PrevDone
    /\ hist.prev.args.train_ratio = args.train_ratio
    /\ hist.prev.args.val_ratio = args.val_ratio
    /\ hist.prev.args.seed /= args.seed
    /\ loc.n_train > 0
    /\ Range(loc.train_set) /= Range(hist.prev.loc.train_set)


\* C13: a second call of split_dataset on the same source with the ratios
\* and the seed of the first gives the same train, val and test sets, in
\* whatever order glob lists the files in either call.
C13_SameInputsSameSplit ==
    (Sliced /\ PrevDone /\ hist.prev.args = args) =>
        /\ loc.train_set = hist.prev.loc.train_set
        /\ loc.val_set = hist.prev.loc.val_set
        /\ loc.test_set = hist.prev.loc.test_set

\* Both calls are done with the same arguments on a directory of three or
\* more pairs, with more than one pair in some split.
C13_Witness ==
    /\ spc = "done"
    /\ PrevDone
    /\ hist.prev.args = args
    /\ Cardinality(ValidPairSet) >= 3
    /\ \E d \in Splits : Len(SetOf(d)) >= 2


\* The ratio pairs the claim wants rejected; the sum is the exact one.
BadRatios(train_ratio, val_ratio) ==
    \/ train_ratio <= 0 \/ train_ratio >= One
    \/ val_ratio <= 0 \/ val_ratio >= One
    \/ train_ratio + val_ratio >= One
AllBadRatiosRejected ==
    \A t, v \in Floats : BadRatios(t, v) => ~ratios_ok(t, v)
OutputAtCall ==
    IF hist.call = 1 THEN EmptyRoot ELSE hist.prev.output_root

\* C14: a call whose train_ratio or val_ratio is not in (0,1), or whose
\* ratios add up to 1 or more, ends in the AssertionError with nothing
\* globbed, no directory made and no file copied: output_root is as it was
\* when the call began. No float pair of that kind passes the two asserts.
C14_BadRatiosRejectedBeforeIO ==
    /\ AllBadRatiosRejected
    /\ (BadRatios(args.train_ratio, args.val_ratio) /\ spc /= "call") =>
        /\ spc = "AssertionError"
        /\ hist.io = {}
        /\ hist.copied = {}
        /\ loc = NoLocals
        /\ output_root = OutputAtCall

\* After a call that filled the splits, a call with two ratios of (0,1)
\* that add up to more than 1 has been rejected.
C14_Witness ==
    /\ spc = "AssertionError"
    /\ PrevDone
    /\ \E d \in Splits : output_root[d].images /= {}
    /\ args.train_ratio \in 1..(One - 1)
    /\ args.val_ratio \in 1..(One - 1)
    /\ args.train_ratio + args.val_ratio > One


Unlabelled == {i \in source_dir.images : i[1] \notin source_dir.labels}

\* C15: an image without a label is in none of train, val and test and is
\* copied nowhere, and the call still goes on to slice when another image
\* has a label; the RuntimeError is raised only when no image has a label,
\* and then no split directory was made and no file copied.
C15_UnlabelledSkippedEmptyFails ==
    /\ Sliced =>
        /\ ValidPairSet /= {}
        /\ \A i \in Unlabelled, d \in Splits :
              /\ \A q \in Range(SetOf(d)) : q[1] /= i
              /\ \A q \in hist.copied : q[2][1] /= i
              /\ i \notin output_root[d].images
    /\ spc = "RuntimeError" =>
        /\ ValidPairSet = {}
        /\ "mkdir" \notin hist.io
        /\ hist.copied = {}
        /\ output_root = OutputAtCall
        /\ \A d \in Splits : ~output_root[d].exists
    /\ (ValidPairSet = {} /\ ratios_ok(args.train_ratio, args.val_ratio))
           => spc \in {"call", "glob", "pairs", "RuntimeError"}

\* A call is done on a directory that holds an image without a label.
C15_Witness ==
    /\ spc = "done"
    /\ Unlabelled /= {}


\* C17: when a call of split_dataset is done, each split directory holds the
\* images and labels of that call's set for the split and nothing else, so
\* every valid pair is in one split directory only.
C17_OutputIsLatestPartition ==
    spc = "done" =>
        \A d \in Splits :
            /\ output_root[d].images = {q[1] : q \in Range(SetOf(d))}
            /\ output_root[d].labels = {q[2] : q \in Range(SetOf(d))}


\* C19: for one valid pair or more and ratios that pass the two asserts, the
\* test split gets at least one pair and no size is negative.
C19_TestSplitNeverEmpty ==
    sz /= <<>> /\ sz.pc = "done" =>
        /\ sz.sizes.n_test >= 1
        /\ sz.sizes.n_train >= 0
        /\ sz.sizes.n_val >= 0


\* The lines the claim expects in the label file of an image: one for each
\* laptop row of the image that parses and has its centre in [0,1], in the
\* order of the CSV.
RECURSIVE ExpectedLines(_, _)
ExpectedLines(image_id, k) ==
    IF k > Len(annotations) THEN <<>>
    ELSE (IF /\ annotations[k].ImageID = image_id
             /\ RowDecision(annotations[k], {image_id}) = "write"
          THEN <<LabelLine(annotations[k].box)>> ELSE <<>>)
         \o ExpectedLines(image_id, k + 1)

\* C18: when generate_yolo_labels_for_laptop is done, the .txt files of
\* images_dir are the label files of the downloaded images that have such
\* rows, each with all of its lines in CSV order, num_images is the number
\* of these files, and no older .txt file is left.
C18_LabelFilesHoldAllRows ==
    (gen /= <<>> /\ gen.pc = "done") =>
        /\ \A i \in GenStems :
              IF i \in images_dir.images /\ ExpectedLines(i, 1) /= <<>>
              THEN /\ i \in DOMAIN images_dir.labels
                   /\ images_dir.labels[i] = ExpectedLines(i, 1)
              ELSE i \notin DOMAIN images_dir.labels
        /\ gen.num_images = Cardinality(DOMAIN images_dir.labels)

====
